---- MODULE Spec2Model ----
(***************************************************************************)
(* Term appender of aeron-go (aeron/logbuffer/term/appender.go).           *)
(*                                                                         *)
(* Producers call Claim, AppendUnfragmentedMessage and                     *)
(* AppendFragmentedMessage on one Appender.  The 64-bit tail counter is    *)
(* advanced with an atomic fetch-and-add; every other access to the term   *)
(* buffer and to the Appender's headerWriter is a plain load or store, so  *)
(* each of them is one step of the model and steps of different producers  *)
(* interleave freely.  The term buffer is modelled byte by byte.           *)
(***************************************************************************)
EXTENDS Integers, Sequences, FiniteSets, TLC

(***************************************************************************)
(* Bounds of the model.                                                    *)
(***************************************************************************)
NumProducers == 2
MaxCalls == 2
MaxSeqCalls == 3
TermFrames == 8
MaxResets == 1

(***************************************************************************)
(* Constants of the program.                                               *)
(***************************************************************************)
AppenderTripped == -1
AppenderFailed == -2
beginFrag == 128
endFrag == 64
unfragmented == 192

\* logbuffer.FrameAlignment and the logbuffer.DataFrameHeader layout
FrameAlignment == 32
HeaderLength == 32
FrameLengthFieldOffset == 0
VersionFieldOffset == 4
FlagsFieldOffset == 5
TypeFieldOffset == 6
TermOffsetFieldOffset == 8
SessionIDFieldOffset == 12
StreamIDFieldOffset == 16
TermIDFieldOffset == 20
ReservedValueFieldOffset == 24
CurrentVersion == 0
TypePad == 0
TypeData == 1

\* the session and stream ID of the default frame header, read by fill()
DefaultSessionID == 1000
DefaultStreamID == 2000

\* the term ID of the tail counter when the Appender is made
InitialTermID == 7

\* the capacity of the term buffer
TermLength == TermFrames * FrameAlignment

Producers == 1..NumProducers

(***************************************************************************)
(* 32-bit arithmetic.  The low half of the raw tail is an unsigned 32-bit  *)
(* number; it is held as the int32 with the same bits, so that             *)
(* int32(termOffset) is the held value itself and the unsigned value is    *)
(* at least 2^31 exactly when the held value is negative.                  *)
(***************************************************************************)
MaxInt32 == 2147483647
MinInt32 == (-MaxInt32) - 1

\* a + 1 in int32
Inc32(a) == IF a = MaxInt32 THEN MinInt32 ELSE a + 1

\* -a in int32
Neg32(a) == IF a = MinInt32 THEN MinInt32 ELSE -a

\* a - b in int32, for a >= 0
Sub32(a, b) ==
    IF b >= 0 \/ a <= MaxInt32 + b
    THEN a - b
    ELSE ((a - MaxInt32) - 1) - ((b + MaxInt32) + 1)

\* util.AlignInt32: (value + (alignment - 1)) & ^(alignment - 1)
AlignInt32(value, alignment) ==
    ((value + (alignment - 1)) \div alignment) * alignment

(***************************************************************************)
(* Little-endian encoding of the fields of a frame.                        *)
(***************************************************************************)
Bytes8(v) == << v % 256 >>

Bytes16(v) == << v % 256, (v \div 256) % 256 >>

Bytes32(v) ==
    LET w == IF v >= 0 THEN v ELSE (v + MaxInt32) + 1
    IN  << w % 256, (w \div 256) % 256, (w \div 65536) % 256,
           (w \div 16777216) + (IF v < 0 THEN 128 ELSE 0) >>

\* an int64 whose value fits 32 bits, sign-extended
Bytes64(v) ==
    Bytes32(v) \o (IF v < 0 THEN << 255, 255, 255, 255 >> ELSE << 0, 0, 0, 0 >>)

InBuffer(offset, n) == offset >= 0 /\ offset <= TermLength - n

GetUInt16(mem, o) == mem[o] + 256 * mem[o + 1]

GetInt32(mem, o) ==
    LET top == mem[o + 3]
        low == mem[o] + 256 * mem[o + 1] + 65536 * mem[o + 2]
    IN  IF top >= 128
        THEN (low + 16777216 * (top - 128)) + MinInt32
        ELSE low + 16777216 * top

\* the bytes of a store that fall inside the term buffer
StoreBytes(mem, offset, bytes) ==
    IF offset <= -Len(bytes) \/ offset >= TermLength
    THEN mem
    ELSE [i \in DOMAIN mem |->
            IF i - offset >= 0 /\ i - offset < Len(bytes)
            THEN bytes[(i - offset) + 1] ELSE mem[i]]

(***************************************************************************)
(* The calls the producers make.  A length of HugeLength has an aligned    *)
(* frame length of 2^31 - 64; FillLength fills an empty term exactly.      *)
(***************************************************************************)
HugeLength == MaxInt32 - 95
FillLength == TermLength - HeaderLength
ClaimLengths == {1, HugeLength}
UnfragmentedCalls ==
    { [length |-> 1, supplier |-> TRUE],
      [length |-> 1, supplier |-> FALSE],
      [length |-> FillLength, supplier |-> FALSE] }
FragmentedCalls ==
    { [length |-> 2, maxPayloadLength |-> 1, supplier |-> TRUE] }
SeqClaimLengths == ClaimLengths
SeqUnfragmentedCalls ==
    UnfragmentedCalls \cup { [length |-> HugeLength, supplier |-> TRUE] }
SeqFragmentedCalls ==
    FragmentedCalls \cup
        { [length |-> 65, maxPayloadLength |-> 32, supplier |-> TRUE],
          [length |-> 64, maxPayloadLength |-> 32, supplier |-> TRUE],
          [length |-> 3, maxPayloadLength |-> 1, supplier |-> TRUE],
          [length |-> 65, maxPayloadLength |-> 32, supplier |-> FALSE] }
TermIDs == {-1, 9}

\* the bytes of the source buffer of producer p
SrcByte(p, i) == 16 * p + (i % 16)

\* the reserved value supplier the callers pass when they pass one
SuppliedValue(termOffset, length) == termOffset + length

VARIABLES
    termBuffer,  \* the bytes of the term buffer
    tail,        \* the tail counter: term ID (high half), offset (low half)
    hdrPtr,      \* headerWriter.buffer: the term offset it is wrapped over
    loc,         \* the locals of each producer's call in flight
    result,      \* each producer's AppenderResult
    log,         \* history: the calls of this term, in reservation order
    ncalls,      \* calls started
    resets,      \* SetTailTermID calls made
    oob,         \* history: a store was made outside the term buffer
    crashed      \* the process has been stopped by a fault

vars == << termBuffer, tail, hdrPtr, loc, result, log, ncalls,
           resets, oob, crashed >>

IdleLoc ==
    [ pc |-> "idle", op |-> "none", length |-> 0, maxPayloadLength |-> 0,
      supplier |-> FALSE, offset |-> 0, frameLength |-> 0, termID |-> 0,
      remaining |-> 0, flags |-> 0, start |-> 0, required |-> 0, call |-> 0 ]

Init ==
    /\ termBuffer = [i \in 0..(TermLength - 1) |-> 0]
    /\ tail = [termID |-> InitialTermID, offset |-> 0]
    /\ hdrPtr = 0
    /\ loc = [p \in Producers |-> IdleLoc]
    /\ result = [p \in Producers |-> [termOffset |-> 0, termID |-> 0]]
    /\ log = << >>
    /\ ncalls = 0
    /\ resets = 0
    /\ oob = FALSE
    /\ crashed = FALSE

(***************************************************************************)
(* The tail counter.                                                       *)
(***************************************************************************)
\* tailCounter.GetAndAddInt64(int64(alignedLength)): the counter after the
\* addition, for alignedLength >= 0; a carry out of the low half goes into
\* the term ID
GetAndAddRawTailLost(t, alignedLength) == t

GetAndAddRawTailSaturating(t, alignedLength) ==
    IF t.offset >= 0 /\ alignedLength <= MaxInt32 - t.offset
    THEN [t EXCEPT !.offset = t.offset + alignedLength]
    ELSE t

getAndAddRawTail(t, alignedLength) ==
    LET s == t.offset
    IN  IF s >= 0
        THEN IF alignedLength <= MaxInt32 - s
             THEN [t EXCEPT !.offset = s + alignedLength]
             ELSE [t EXCEPT !.offset = (s + MinInt32) + (alignedLength + MinInt32)]
        ELSE IF s + alignedLength < 0
             THEN [t EXCEPT !.offset = s + alignedLength]
             ELSE [termID |-> Inc32(t.termID), offset |-> s + alignedLength]

\* logbuffer.TermID(rawTail): the high half
TermID(rawTail) == rawTail.termID

\* result.termOffset > int64(termLength), where result.termOffset is
\* (rawTail & 0xFFFFFFFF) + int64(requiredLength), an int64 sum
OverrunsInclusive(rawTail, requiredLength) ==
    rawTail.offset < 0 \/ rawTail.offset >= TermLength - requiredLength

Overruns(rawTail, requiredLength) ==
    rawTail.offset < 0 \/ rawTail.offset > TermLength - requiredLength

\* result.termOffset = termOffset + int64(requiredLength)
ResultOffsetStart(termOffset, requiredLength) == termOffset

ResultOffset(termOffset, requiredLength) == termOffset + requiredLength

\* the required length of AppendFragmentedMessage
FragmentedRequiredLength(length, maxPayloadLength) ==
    LET numMaxPayloads == length \div maxPayloadLength
        remainingPayload == length % maxPayloadLength
        lastFrameLength ==
            IF remainingPayload > 0
            THEN AlignInt32(remainingPayload + HeaderLength, FrameAlignment)
            ELSE 0
    IN  (numMaxPayloads * (maxPayloadLength + HeaderLength)) + lastFrameLength

\* the required length of Claim and AppendUnfragmentedMessage
FrameRequiredLength(length) ==
    AlignInt32(length + HeaderLength, FrameAlignment)

\* int32(math.Min(float64(remaining), float64(maxPayloadLength)))
BytesToWrite(remaining, maxPayloadLength) ==
    IF remaining < maxPayloadLength THEN remaining ELSE maxPayloadLength

(***************************************************************************)
(* Stores.  A store outside the term buffer is undefined: the bounds check *)
(* of the buffer stops the process, or the store goes through and only     *)
(* its bytes inside the term buffer are seen here.                         *)
(***************************************************************************)
Store(offset, bytes) ==
    IF InBuffer(offset, Len(bytes))
    THEN /\ termBuffer' = StoreBytes(termBuffer, offset, bytes)
         /\ UNCHANGED << oob, crashed >>
    ELSE /\ oob' = TRUE
         /\ crashed' \in BOOLEAN
         /\ termBuffer' = IF crashed' THEN termBuffer
                          ELSE StoreBytes(termBuffer, offset, bytes)

\* a step of producer p's call in flight at program point pc
At(p, pc) == ~crashed /\ loc[p].pc = pc

Goto(p, pc) == loc' = [loc EXCEPT ![p].pc = pc]

(***************************************************************************)
(* The history of a call.                                                  *)
(***************************************************************************)
NewCall(p, op, length, maxPayloadLength, rawTail, required) ==
    [ p |-> p, op |-> op, length |-> length,
      maxPayloadLength |-> maxPayloadLength,
      start |-> rawTail.offset, required |-> required,
      termID |-> rawTail.termID,
      tailAfter |-> getAndAddRawTail(rawTail, required),
      returned |-> FALSE, result |-> 0, pad |-> FALSE, committed |-> FALSE,
      endOffset |-> 0, frames |-> << >> ]

Returned(call, termOffset, endOffset) ==
    [call EXCEPT !.returned = TRUE, !.result = termOffset,
                 !.endOffset = endOffset]

(***************************************************************************)
(* handleEndOfLogCondition: the outcome for a reservation that overran the *)
(* term, and whether it writes the padding frame.                          *)
(***************************************************************************)
EndOfLogOutcome(termOffset, termLength) ==
    IF termOffset <= termLength THEN AppenderTripped ELSE AppenderFailed

EndOfLogPads(termOffset, termLength) == termOffset < termLength

(***************************************************************************)
(* The reservation shared by the three append operations: the fetch-and-add*)
(* of the tail, the result's term ID and offset, and the branch on the     *)
(* overrun.  A call that overruns and writes no padding returns here.      *)
(***************************************************************************)
Reserve(p, op, length, maxPayloadLength, supplier, required) ==
    LET rawTail == tail
        termOffset == rawTail.offset
        termID == TermID(rawTail)
        call == NewCall(p, op, length, maxPayloadLength, rawTail, required)
        k == Len(log) + 1
        bytesToWrite == BytesToWrite(length, maxPayloadLength)
        base == [ IdleLoc EXCEPT !.op = op, !.length = length,
                    !.maxPayloadLength = maxPayloadLength,
                    !.supplier = supplier, !.termID = termID,
                    !.offset = termOffset, !.start = termOffset,
                    !.required = required, !.call = k ]
    IN  /\ At(p, "idle")
        /\ ncalls' = ncalls + 1
        /\ tail' = getAndAddRawTail(tail, required)
        /\ UNCHANGED << termBuffer, hdrPtr, resets, oob, crashed >>
        /\ IF Overruns(rawTail, required)
           THEN LET newOffset == EndOfLogOutcome(termOffset, TermLength)
                IN  IF newOffset = AppenderTripped
                       /\ EndOfLogPads(termOffset, TermLength)
                    THEN /\ loc' = [loc EXCEPT ![p] =
                                [base EXCEPT !.pc = "write_length",
                                    !.op = "pad",
                                    !.frameLength = Sub32(TermLength, termOffset)]]
                         /\ result' = [result EXCEPT ![p].termID = termID]
                         /\ log' = Append(log, [call EXCEPT !.pad = TRUE])
                    ELSE /\ loc' = loc
                         /\ result' = [result EXCEPT ![p] =
                                [termOffset |-> newOffset, termID |-> termID]]
                         /\ log' = Append(log, Returned(call, newOffset, termOffset))
           ELSE /\ loc' = [loc EXCEPT ![p] =
                        [base EXCEPT !.pc = "write_length",
                            !.remaining = length,
                            !.flags = IF op = "fragmented" THEN beginFrag
                                      ELSE unfragmented,
                            !.frameLength =
                                IF op = "fragmented"
                                THEN bytesToWrite + HeaderLength
                                ELSE length + HeaderLength]]
                /\ result' = [result EXCEPT ![p] =
                        [termOffset |-> ResultOffset(termOffset, required),
                         termID |-> termID]]
                /\ log' = Append(log, call)

Claim(p, length) ==
    Reserve(p, "claim", length, length, FALSE, FrameRequiredLength(length))

AppendUnfragmentedMessage(p, length, supplier) ==
    Reserve(p, "unfragmented", length, length, supplier,
            FrameRequiredLength(length))

AppendFragmentedMessage(p, length, maxPayloadLength, supplier) ==
    Reserve(p, "fragmented", length, maxPayloadLength, supplier,
            FragmentedRequiredLength(length, maxPayloadLength))

(***************************************************************************)
(* headerWriter.write.  The length goes to the term buffer at the frame's  *)
(* offset; the other fields go through header.buffer, the one buffer view  *)
(* of the Appender's headerWriter, wherever it is wrapped at that moment.  *)
(***************************************************************************)
WriteLength(p) ==
    /\ At(p, "write_length")
    /\ Store(loc[p].offset + FrameLengthFieldOffset,
             Bytes32(Neg32(loc[p].frameLength)))
    /\ Goto(p, "wrap")
    /\ UNCHANGED << tail, hdrPtr, result, log, ncalls, resets >>

WrapHeader(p) ==
    /\ At(p, "wrap")
    /\ hdrPtr' = loc[p].offset
    /\ Goto(p, "put_version")
    /\ UNCHANGED << termBuffer, tail, result, log, ncalls, resets, oob, crashed >>

\* the program point after the header write
AfterHeader(op) ==
    CASE op = "pad" -> "set_type"
      [] op = "claim" -> "claim_wrap"
      [] OTHER -> "put_bytes"

HeaderPut(p, pc, fieldOffset, bytes, next) ==
    /\ At(p, pc)
    /\ Store(hdrPtr + fieldOffset, bytes)
    /\ Goto(p, next)
    /\ UNCHANGED << tail, hdrPtr, result, log, ncalls, resets >>

PutVersion(p) ==
    HeaderPut(p, "put_version", VersionFieldOffset, Bytes8(CurrentVersion),
              "put_flags")

PutFlags(p) ==
    HeaderPut(p, "put_flags", FlagsFieldOffset, Bytes8(unfragmented), "put_type")

PutType(p) ==
    HeaderPut(p, "put_type", TypeFieldOffset, Bytes16(TypeData),
              "put_termOffset")

PutTermOffset(p) ==
    HeaderPut(p, "put_termOffset", TermOffsetFieldOffset,
              Bytes32(loc[p].offset), "put_sessionID")

PutSessionID(p) ==
    HeaderPut(p, "put_sessionID", SessionIDFieldOffset,
              Bytes32(DefaultSessionID), "put_streamID")

PutStreamID(p) ==
    HeaderPut(p, "put_streamID", StreamIDFieldOffset,
              Bytes32(DefaultStreamID), "put_termID")

PutTermID(p) ==
    HeaderPut(p, "put_termID", TermIDFieldOffset, Bytes32(loc[p].termID),
              AfterHeader(loc[p].op))

(***************************************************************************)
(* The end of a call: the frame just published joins the call's history,   *)
(* and the call returns or, in the fragment loop, goes round again.        *)
(***************************************************************************)
FrameOf(l, type) ==
    [ offset |-> l.offset, frameLength |-> l.frameLength, flags |-> l.flags,
      type |-> type ]

Return(p, termOffset, endOffset, frame) ==
    /\ loc' = [loc EXCEPT ![p] = IdleLoc]
    /\ result' = [result EXCEPT ![p].termOffset = termOffset]
    /\ log' = [log EXCEPT ![loc[p].call] =
                  Returned([@ EXCEPT !.frames = Append(@, frame)],
                           termOffset, endOffset)]

\* claim.Wrap(termBuffer, offset, frameLength), and Claim returns
ClaimWrap(p) ==
    /\ At(p, "claim_wrap")
    /\ loc' = [loc EXCEPT ![p].pc = "claimed"]
    /\ log' = [log EXCEPT ![loc[p].call] =
                  Returned(@, result[p].termOffset, loc[p].offset)]
    /\ UNCHANGED << termBuffer, tail, hdrPtr, result, ncalls, resets, oob,
                    crashed >>

\* the claim holder commits: the final length of the claimed frame
Commit(p) ==
    /\ At(p, "claimed")
    /\ Store(loc[p].offset + FrameLengthFieldOffset, Bytes32(loc[p].frameLength))
    /\ loc' = [loc EXCEPT ![p] = IdleLoc]
    /\ log' = [log EXCEPT ![loc[p].call] =
                  [@ EXCEPT !.committed = TRUE,
                            !.frames = Append(@, FrameOf(loc[p], TypeData))]]
    /\ UNCHANGED << tail, hdrPtr, result, ncalls, resets >>

(***************************************************************************)
(* The payload, the flags, the reserved value and the publish.             *)
(***************************************************************************)
PayloadBytes(p, l) ==
    [i \in 1..(l.frameLength - HeaderLength) |->
        SrcByte(p, (l.length - l.remaining) + (i - 1))]

PutBytes(p) ==
    /\ At(p, "put_bytes")
    /\ Store(loc[p].offset + HeaderLength, PayloadBytes(p, loc[p]))
    /\ Goto(p, IF loc[p].op = "fragmented" THEN "frame_flags"
               ELSE IF loc[p].supplier THEN "reserved_value" ELSE "publish")
    /\ UNCHANGED << tail, hdrPtr, result, log, ncalls, resets >>

\* whether the fragment loop sets the end flag on this fragment
IsLastFragmentStrict(remaining, maxPayloadLength) == remaining < maxPayloadLength

IsLastFragment(remaining, maxPayloadLength) == remaining <= maxPayloadLength

FrameFlags(p) ==
    LET flags == IF IsLastFragment(loc[p].remaining, loc[p].maxPayloadLength)
                 THEN loc[p].flags + endFrag ELSE loc[p].flags
    IN  /\ At(p, "frame_flags")
        /\ Store(loc[p].offset + FlagsFieldOffset, Bytes8(flags))
        /\ loc' = [loc EXCEPT ![p].pc = "reserved_value", ![p].flags = flags]
        /\ UNCHANGED << tail, hdrPtr, result, log, ncalls, resets >>

\* the call of the supplier and the store of its value; AppendFragmentedMessage
\* calls the supplier without a nil check, and calling a nil func panics
PutReservedValue(p) ==
    /\ At(p, "reserved_value")
    /\ IF loc[p].supplier
       THEN /\ Store(loc[p].offset + ReservedValueFieldOffset,
                     Bytes64(SuppliedValue(loc[p].offset, loc[p].frameLength)))
            /\ Goto(p, "publish")
       ELSE /\ crashed' = TRUE
            /\ UNCHANGED << termBuffer, oob, loc >>
    /\ UNCHANGED << tail, hdrPtr, result, log, ncalls, resets >>

\* logbuffer.SetFrameType(termBuffer, termOffset, TypePad)
SetFrameType(p) ==
    /\ At(p, "set_type")
    /\ Store(loc[p].offset + TypeFieldOffset, Bytes16(TypePad))
    /\ Goto(p, "publish")
    /\ UNCHANGED << tail, hdrPtr, result, log, ncalls, resets >>

\* logbuffer.FrameLengthOrdered(termBuffer, offset, frameLength), and what
\* follows it: the return, or the next round of the fragment loop
FrameLengthOrdered(p) ==
    LET l == loc[p]
        alignedLength == AlignInt32(l.frameLength, FrameAlignment)
        bytesWritten == l.frameLength - HeaderLength
        remaining == l.remaining - bytesWritten
        offset == l.offset + alignedLength
    IN  /\ At(p, "publish")
        /\ Store(l.offset + FrameLengthFieldOffset, Bytes32(l.frameLength))
        /\ UNCHANGED << tail, hdrPtr, ncalls, resets >>
        /\ CASE l.op = "pad" ->
                  Return(p, AppenderTripped, l.offset, FrameOf(l, TypePad))
             [] l.op = "unfragmented" ->
                  Return(p, result[p].termOffset, offset, FrameOf(l, TypeData))
             [] l.op = "fragmented" /\ remaining > 0 ->
                  /\ loc' = [loc EXCEPT ![p] =
                        [l EXCEPT !.pc = "write_length", !.flags = 0,
                            !.offset = offset, !.remaining = remaining,
                            !.frameLength =
                                BytesToWrite(remaining, l.maxPayloadLength)
                                    + HeaderLength]]
                  /\ log' = [log EXCEPT ![l.call].frames =
                                Append(@, FrameOf(l, TypeData))]
                  /\ UNCHANGED result
             [] OTHER ->
                  Return(p, result[p].termOffset, offset, FrameOf(l, TypeData))

(***************************************************************************)
(* SetTailTermID: the reset of the tail for the next use of the term,      *)
(* made when no append is in flight.  The history starts again.            *)
(***************************************************************************)
\* int64(termID) << 32: the term ID in the high half, the low half zero
RawTailOfTermIDLow(termID) == [termID |-> 0, offset |-> termID]

RawTailOfTermID(termID) == [termID |-> termID, offset |-> 0]

SetTailTermID(termID) ==
    /\ ~crashed
    /\ \A p \in Producers : loc[p].pc = "idle"
    /\ resets < MaxResets
    /\ ncalls > 0
    /\ resets' = resets + 1
    /\ tail' = RawTailOfTermID(termID)
    /\ log' = << >>
    /\ UNCHANGED << termBuffer, hdrPtr, loc, result, ncalls, oob, crashed >>

\* the calls a producer may start
Calls(p, claims, unfragmenteds, fragmenteds) ==
    \/ \E length \in claims : Claim(p, length)
    \/ \E c \in unfragmenteds :
          AppendUnfragmentedMessage(p, c.length, c.supplier)
    \/ \E c \in fragmenteds :
          AppendFragmentedMessage(p, c.length, c.maxPayloadLength, c.supplier)

\* the steps of a call in flight
Steps(p) ==
    \/ WriteLength(p)
    \/ WrapHeader(p)
    \/ PutVersion(p)
    \/ PutFlags(p)
    \/ PutType(p)
    \/ PutTermOffset(p)
    \/ PutSessionID(p)
    \/ PutStreamID(p)
    \/ PutTermID(p)
    \/ ClaimWrap(p)
    \/ Commit(p)
    \/ PutBytes(p)
    \/ FrameFlags(p)
    \/ PutReservedValue(p)
    \/ SetFrameType(p)
    \/ FrameLengthOrdered(p)

\* producers calling concurrently
Next ==
    \/ \E p \in Producers :
          \/ ncalls < MaxCalls
             /\ Calls(p, ClaimLengths, UnfragmentedCalls, FragmentedCalls)
          \/ Steps(p)
    \/ \E termID \in TermIDs : SetTailTermID(termID)

Spec == Init /\ [][Next]_vars

\* one producer making its calls one after another
NextSeq ==
    \/ ncalls < MaxSeqCalls
       /\ Calls(1, SeqClaimLengths, SeqUnfragmentedCalls, SeqFragmentedCalls)
    \/ Steps(1)
    \/ \E termID \in TermIDs : SetTailTermID(termID)

SpecSeq == Init /\ [][NextSeq]_vars

(***************************************************************************)
(* What the claims speak of.                                               *)
(***************************************************************************)
CallIds == DOMAIN log

\* the reservation [start, start + required) ends past the term capacity,
\* the start being the unsigned low half of the tail
Overran(c) == c.start < 0 \/ c.start > TermLength - c.required

Succeeded(c) == c.returned /\ c.result >= 0

InFlight(p) == loc[p].pc \notin {"idle", "claimed"}

HeaderPutPcs ==
    { "put_version", "put_flags", "put_type", "put_termOffset",
      "put_sessionID", "put_streamID", "put_termID" }

\* no append call in flight, every claim committed, the process running
Quiescent == ~crashed /\ \A p \in Producers : loc[p].pc = "idle"

\* the sum of the required lengths of the first k calls, or TermLength + 1
\* when it is more than the term capacity
RECURSIVE TotalRequired(_)
TotalRequired(k) ==
    IF k = 0 THEN 0
    ELSE LET before == TotalRequired(k - 1)
         IN  IF before > TermLength \/ log[k].required > TermLength - before
             THEN TermLength + 1
             ELSE before + log[k].required

\* C1: the ranges reserved by the calls of a term, taken in reservation
\* order while their total required length is at most the term capacity,
\* are pairwise disjoint and tile [0, total): each starts where the one
\* before it ends, the first at 0.
C1_ReservationsTile ==
    \A k \in CallIds :
        TotalRequired(k) <= TermLength =>
            /\ log[k].start = TotalRequired(k - 1)
            /\ log[k].required > 0
            /\ \A j \in 1..(k - 1) :
                  log[j].start + log[j].required <= log[k].start

\* two calls of two producers in flight together, both inside the term
C1_Witness ==
    /\ Len(log) = 2
    /\ TotalRequired(2) <= TermLength
    /\ log[1].p # log[2].p
    /\ \A p \in Producers : InFlight(p)

\* C2: once a reservation has overrun the term, exactly one call has
\* returned or will return AppenderTripped, every other overrunning call
\* returns AppenderFailed, and no second padding frame is written (a
\* winner that starts exactly at the capacity has no remainder to pad).
C2_OneWinner ==
    LET over == { k \in CallIds : Overran(log[k]) }
        won == { k \in over : log[k].pad \/
                     (log[k].returned /\ log[k].result = AppenderTripped) }
    IN  /\ Cardinality({ k \in CallIds : log[k].pad }) <= 1
        /\ over # {} => Cardinality(won) = 1
        /\ \A k \in over \ won :
              log[k].returned => log[k].result = AppenderFailed

\* C3: a call puts the fields of a header only into the frame it reserved:
\* whenever a producer is about to put a header field, the headerWriter's
\* buffer is wrapped over that producer's own frame.
C3_OwnHeader ==
    \A p \in Producers :
        (~crashed /\ loc[p].pc \in HeaderPutPcs) => hdrPtr = loc[p].offset

\* the bytes of the frame at offset of the given length, inside the buffer
FrameBytes(mem, f) ==
    [i \in 0..(AlignInt32(f.frameLength, FrameAlignment) - 1) |->
        mem[f.offset + i]]

\* the frames of the term whose final length has been stored
Published ==
    { f \in UNION { { log[k].frames[i] : i \in DOMAIN log[k].frames } :
                    k \in CallIds } :
        /\ f.frameLength > 0
        /\ InBuffer(f.offset, AlignInt32(f.frameLength, FrameAlignment)) }

\* C4: the store of the final length is the last write to a frame: no step
\* changes a byte of a frame that is published.
C4_NoWriteAfterPublish ==
    [][\A f \in Published :
          FrameBytes(termBuffer', f) = FrameBytes(termBuffer, f)]_vars

RECURSIVE PayloadSum(_, _)
PayloadSum(frames, n) ==
    IF n = 0 THEN 0
    ELSE PayloadSum(frames, n - 1) + (frames[n].frameLength - HeaderLength)

\* C5: a successful AppendFragmentedMessage with length > maxPayloadLength
\* writes ceil(length / maxPayloadLength) frames whose payloads sum to the
\* length; the first has the begin flag only, the last the end flag only,
\* every frame between them no flag.
C5_Fragments ==
    \A k \in CallIds :
        LET c == log[k]
            n == Len(c.frames)
        IN  (c.op = "fragmented" /\ Succeeded(c)
                /\ c.length > c.maxPayloadLength) =>
                /\ n = (c.length + c.maxPayloadLength - 1) \div c.maxPayloadLength
                /\ PayloadSum(c.frames, n) = c.length
                /\ c.frames[1].flags = beginFrag
                /\ c.frames[n].flags = endFrag
                /\ \A i \in 2..(n - 1) : c.frames[i].flags = 0

\* a fragmented message of three fragments has been written
C5_Witness ==
    \E k \in CallIds :
        /\ log[k].op = "fragmented"
        /\ Succeeded(log[k])
        /\ Len(log[k].frames) = 3

\* C6: every fragment of a successful AppendFragmentedMessage lies inside
\* the range the call reserved, and the offset after the last fragment is
\* the termOffset the call returns.
C6_FragmentsInReservation ==
    /\ \A p \in Producers :
          (loc[p].op = "fragmented" /\ InFlight(p)) =>
              loc[p].offset + AlignInt32(loc[p].frameLength, FrameAlignment)
                  <= loc[p].start + loc[p].required
    /\ \A k \in CallIds :
          (log[k].op = "fragmented" /\ Succeeded(log[k])) =>
              log[k].endOffset = log[k].result

\* the last call of producer p in this term, 0 when it has made none
LastCall(p) ==
    IF \E k \in CallIds : log[k].p = p
    THEN CHOOSE k \in CallIds :
            log[k].p = p /\ \A j \in CallIds : log[j].p = p => j <= k
    ELSE 0

\* C7: a call returns the term ID the tail held at its reservation, and as
\* termOffset start + requiredLength, positive and at most the capacity,
\* when that sum is at most the capacity, and otherwise AppenderTripped or
\* AppenderFailed.
C7_Result ==
    \A p \in Producers :
        LET k == LastCall(p)
        IN  (k # 0 /\ log[k].returned) =>
                /\ result[p].termID = log[k].termID
                /\ result[p].termOffset = log[k].result
                /\ IF Overran(log[k])
                   THEN log[k].result \in {AppenderTripped, AppenderFailed}
                   ELSE /\ log[k].result = log[k].start + log[k].required
                        /\ log[k].result > 0
                        /\ log[k].result <= TermLength

\* calls have returned with each of the three kinds of result
C7_Witness ==
    /\ \E k \in CallIds : Succeeded(log[k])
    /\ \E k \in CallIds : log[k].returned /\ log[k].result = AppenderTripped
    /\ \E k \in CallIds : log[k].returned /\ log[k].result = AppenderFailed

\* the reservation ends exactly at the term capacity
ExactFit(c) ==
    c.start >= 0 /\ c.start <= TermLength
        /\ c.required = TermLength - c.start

\* C8: a call whose reservation ends exactly at the term capacity leaves
\* the tail offset at the capacity, writes no padding frame, and returns
\* the capacity as termOffset, having written its data frames.
C8_ExactFit ==
    \A k \in CallIds :
        ExactFit(log[k]) =>
            /\ log[k].tailAfter.offset = TermLength
            /\ ~log[k].pad
            /\ log[k].returned =>
                  /\ log[k].result = TermLength
                  /\ \A i \in DOMAIN log[k].frames :
                        log[k].frames[i].type = TypeData
                  /\ log[k].op # "claim" => Len(log[k].frames) >= 1

\* a call that did not start the term has filled it exactly and returned
C8_Witness ==
    \E k \in CallIds :
        /\ ExactFit(log[k])
        /\ log[k].start > 0
        /\ log[k].returned
        /\ Len(log[k].frames) >= 1

\* C9: after a call has filled the term exactly, the next call returns
\* AppenderTripped and writes no padding frame, and every call after that
\* one returns AppenderFailed and writes nothing.
C9_AfterExactFill ==
    \A f \in CallIds :
        (ExactFit(log[f]) /\ ~Overran(log[f])) =>
            \A k \in CallIds :
                /\ k = f + 1 =>
                      ~log[k].pad /\
                      (log[k].returned => log[k].result = AppenderTripped)
                /\ k > f + 1 =>
                      ~log[k].pad /\
                      (log[k].returned => log[k].result = AppenderFailed)

\* the end of the walk over the frames from offset o up to limit: the
\* offset it lands on, or -1 when it meets a frame that is not published
RECURSIVE WalkEnd(_, _)
WalkEnd(o, limit) ==
    IF o >= limit THEN o
    ELSE IF ~InBuffer(o, HeaderLength) THEN -1
    ELSE LET frameLength == GetInt32(termBuffer, o + FrameLengthFieldOffset)
         IN  IF frameLength <= 0 \/ frameLength > TermLength THEN -1
             ELSE WalkEnd(o + AlignInt32(frameLength, FrameAlignment), limit)

\* the frames of type pad the walk from offset o up to limit visits
RECURSIVE WalkPads(_, _)
WalkPads(o, limit) ==
    IF o >= limit \/ ~InBuffer(o, HeaderLength) THEN {}
    ELSE LET frameLength == GetInt32(termBuffer, o + FrameLengthFieldOffset)
             next == o + AlignInt32(frameLength, FrameAlignment)
         IN  IF frameLength <= 0 \/ frameLength > TermLength THEN {}
             ELSE (IF GetUInt16(termBuffer, o + TypeFieldOffset) = TypePad
                   THEN {<< o, next >>} ELSE {}) \cup WalkPads(next, limit)

\* min(tail offset, term capacity), the tail offset being unsigned
TailInTerm ==
    IF tail.offset < 0 \/ tail.offset > TermLength
    THEN TermLength ELSE tail.offset

\* C10: at a quiescent state the walk from offset 0 visits published
\* frames only and lands exactly on min(tail offset, capacity); a frame of
\* type pad is met only as the one frame that ends the term, after the
\* tail has passed the capacity.
C10_Walk ==
    Quiescent =>
        /\ WalkEnd(0, TailInTerm) = TailInTerm
        /\ \A pad \in WalkPads(0, TailInTerm) :
              pad[2] = TermLength /\ (tail.offset < 0 \/ tail.offset > TermLength)
        /\ Cardinality(WalkPads(0, TailInTerm)) <= 1

\* C11: no append and no padding write stores a byte outside [0, term
\* capacity): no store has gone outside the term buffer, a reservation
\* reported as success and the frames written for it end at or before the
\* capacity, and a padding frame starts inside the term.
C11_InsideTerm ==
    /\ ~oob
    /\ \A k \in CallIds :
          /\ Succeeded(log[k]) =>
                /\ log[k].result <= TermLength
                /\ log[k].op # "claim" => log[k].endOffset <= TermLength
          /\ log[k].pad => (log[k].start >= 0 /\ log[k].start < TermLength)

\* the first effect of a call on the tail, unsigned, for a call that began
\* at tail t and left the tail at u
TailAdvance(t, u) ==
    IF (t.offset >= 0) = (u.offset >= 0) /\ u.offset >= t.offset
    THEN u.offset - t.offset
    ELSE IF t.offset >= 0
         THEN ((u.offset - MinInt32) + (MaxInt32 - t.offset)) + 1
         ELSE (u.offset + (-(t.offset + 1))) + 1

\* C12: a call that returns AppenderFailed changes no byte of the term
\* buffer; it advances the tail by its required length and does nothing
\* else.
C12_FailedWritesNothing ==
    [][\A p \in Producers :
          (/\ Len(log') = Len(log) + 1
           /\ log'[Len(log')].p = p
           /\ log'[Len(log')].returned
           /\ log'[Len(log')].result = AppenderFailed) =>
              /\ termBuffer' = termBuffer
              /\ TailAdvance(tail, tail') = log'[Len(log')].required
              /\ hdrPtr' = hdrPtr
              /\ loc'[p].pc = "idle"
              /\ result'[p].termOffset = AppenderFailed]_vars

\* a call has returned AppenderFailed over a term that holds frames
C12_Witness ==
    \E k \in CallIds :
        /\ log[k].returned
        /\ log[k].result = AppenderFailed
        /\ \E i \in DOMAIN termBuffer : termBuffer[i] # 0

\* C13: a call never ends in a fault: it is on its way to one of its three
\* results or has returned one, and no frame it began is left with a
\* negative length by a call that can take no further step.
C13_Returns ==
    \A p \in Producers : ~(crashed /\ InFlight(p))

\* the header of the frame at offset o as the term buffer holds it
HeaderAt(o) ==
    [ frameLength |-> GetInt32(termBuffer, o + FrameLengthFieldOffset),
      version |-> termBuffer[o + VersionFieldOffset],
      flags |-> termBuffer[o + FlagsFieldOffset],
      type |-> GetUInt16(termBuffer, o + TypeFieldOffset),
      termOffset |-> GetInt32(termBuffer, o + TermOffsetFieldOffset),
      sessionID |-> GetInt32(termBuffer, o + SessionIDFieldOffset),
      streamID |-> GetInt32(termBuffer, o + StreamIDFieldOffset),
      termID |-> GetInt32(termBuffer, o + TermIDFieldOffset) ]

\* C14: when a successful Claim(length) returns, the tail has advanced by
\* the aligned frame length, the claim is wrapped over [offset, offset +
\* length + header size), and the frame at the reserved offset holds the
\* header of the claim with the negated frame length as its length; a Claim
\* that overruns the term returns AppenderTripped or AppenderFailed and
\* wraps no claim.
C14_Claim ==
    /\ \A p \in Producers :
          (~crashed /\ loc[p].pc = "claimed") =>
              LET l == loc[p]
                  c == log[l.call]
              IN  /\ ~Overran(c)
                  /\ l.offset = c.start
                  /\ l.frameLength = c.length + HeaderLength
                  /\ TailAdvance([offset |-> c.start], c.tailAfter)
                        = AlignInt32(c.length + HeaderLength, FrameAlignment)
                  /\ HeaderAt(l.offset) =
                        [ frameLength |-> -(c.length + HeaderLength),
                          version |-> CurrentVersion,
                          flags |-> unfragmented,
                          type |-> TypeData,
                          termOffset |-> l.offset,
                          sessionID |-> DefaultSessionID,
                          streamID |-> DefaultStreamID,
                          termID |-> c.termID ]
    /\ \A k \in CallIds :
          (log[k].op = "claim" /\ Overran(log[k]) /\ log[k].returned) =>
              /\ log[k].result \in {AppenderTripped, AppenderFailed}
              /\ ~log[k].committed

\* the eight bytes of the reserved-value field of the frame at offset o
ReservedValueAt(o) ==
    [i \in 1..8 |-> termBuffer[(o + ReservedValueFieldOffset) + (i - 1)]]

\* C15: when AppendUnfragmentedMessage is about to publish its frame, the
\* reserved-value field of the frame holds zero if the call was made
\* without a supplier, whatever the term buffer held before the call, and
\* the supplier's value if it was made with one.
C15_ReservedValue ==
    \A p \in Producers :
        (~crashed /\ loc[p].pc = "publish" /\ loc[p].op = "unfragmented") =>
            ReservedValueAt(loc[p].offset) =
                IF loc[p].supplier
                THEN Bytes64(SuppliedValue(loc[p].offset, loc[p].frameLength))
                ELSE Bytes64(0)

\* C16: SetTailTermID(termID), for a negative termID as for a positive one
\* and whatever the tail held, leaves the tail with termID in its high half
\* and 0 in its low half, and the first append call after it reserves from
\* offset 0 and reports that termID.
C16_Reset ==
    [][/\ \A termID \in TermIDs :
             SetTailTermID(termID) =>
                 /\ tail'.termID = termID
                 /\ tail'.offset = 0
       /\ (resets > 0 /\ Len(log) = 0 /\ Len(log') = 1) =>
             /\ tail.termID \in TermIDs
             /\ log'[1].start = 0
             /\ log'[1].termID = tail.termID
             /\ result'[log'[1].p].termID = tail.termID]_vars

\* the tail has been set to the negative term ID, and the first call after
\* that has returned success from offset 0 with that term ID
C16_Witness ==
    /\ resets > 0
    /\ Len(log) >= 1
    /\ log[1].returned
    /\ log[1].termID = -1
    /\ log[1].start = 0
    /\ Succeeded(log[1])

\* the start of the reservation, the unsigned low half of the tail, is
\* greater than the term capacity
StartsPastTerm(c) == c.start < 0 \/ c.start > TermLength

\* C17: a call whose start offset, read as unsigned, is greater than the
\* term capacity returns AppenderFailed and writes nothing, also when the
\* start is 2^31 or more.
C17_UnsignedStart ==
    \A k \in CallIds :
        StartsPastTerm(log[k]) =>
            /\ ~log[k].pad
            /\ log[k].returned
            /\ log[k].result = AppenderFailed

\* C18: between two resets the term ID in the high half of the tail is the
\* one the term began with, and every call reports it.
C18_TermIDKept ==
    Len(log) >= 1 =>
        /\ tail.termID = log[1].termID
        /\ \A k \in CallIds : log[k].termID = log[1].termID
        /\ resets = 0 => log[1].termID = InitialTermID

\* C20: the tail offset and the start of every reservation and of every
\* frame are multiples of FrameAlignment, so a padding frame's length is a
\* positive multiple of FrameAlignment, at least the header size, and its
\* header lies inside [start, capacity).
C20_Aligned ==
    /\ tail.offset % FrameAlignment = 0
    /\ \A k \in CallIds :
          /\ log[k].start % FrameAlignment = 0
          /\ \A i \in DOMAIN log[k].frames :
                log[k].frames[i].offset % FrameAlignment = 0
          /\ log[k].pad =>
                LET paddingLength == Sub32(TermLength, log[k].start)
                IN  /\ paddingLength > 0
                    /\ paddingLength % FrameAlignment = 0
                    /\ paddingLength >= HeaderLength
                    /\ InBuffer(log[k].start, HeaderLength)

\* the offsets of the term buffer a step has changed
Changed == { i \in DOMAIN termBuffer : termBuffer'[i] # termBuffer[i] }

\* the fragments of its message the fragmented call of producer p has
\* still to begin: the frames of the fragment loop after the current one
LaterFragments(p) ==
    LET l == loc[p]
        first == l.offset + AlignInt32(l.frameLength, FrameAlignment)
        left == l.remaining - (l.frameLength - HeaderLength)
        last == left % l.maxPayloadLength
        size == ((left \div l.maxPayloadLength)
                    * AlignInt32(l.maxPayloadLength + HeaderLength,
                                 FrameAlignment))
                + (IF last > 0
                   THEN AlignInt32(last + HeaderLength, FrameAlignment)
                   ELSE 0)
    IN  { i \in DOMAIN termBuffer : i >= first /\ i - first < size }

\* C19: the fragments of one AppendFragmentedMessage call are published in
\* increasing offset order: when the call stores the final length of a
\* fragment, every earlier fragment of the message lies below it and has
\* its final positive length in the term buffer, and no step of the call
\* stores into a fragment of the message after the one it is writing.
C19_FragmentOrder ==
    [][\A p \in Producers :
          (loc[p].op = "fragmented" /\ InFlight(p) /\ loc'[p] # loc[p]) =>
              /\ Changed \cap LaterFragments(p) = {}
              /\ loc[p].pc = "publish" =>
                    LET frames == log[loc[p].call].frames
                    IN  \A i \in DOMAIN frames :
                           /\ frames[i].offset
                                + AlignInt32(frames[i].frameLength,
                                             FrameAlignment)
                                <= (IF i = Len(frames) THEN loc[p].offset
                                    ELSE frames[i + 1].offset)
                           /\ frames[i].frameLength > 0
                           /\ GetInt32(termBuffer, frames[i].offset
                                          + FrameLengthFieldOffset)
                                = frames[i].frameLength]_vars

====
